---- MODULE Spec2Model ----
(***************************************************************************)
(* Model of apps/ml-service/main.py: a FastAPI application with two        *)
(* routes, GET / (read_root) and POST /api/predict-salary (predict_salary).*)
(*                                                                         *)
(* Each worker of the server handles one request at a time.  A request is  *)
(* routed, its body is validated against the handler's signature           *)
(* (data: dict), and the handler body is then executed line by line in a   *)
(* frame of its own.  Two workers may be anywhere in the handlers at the   *)
(* same time (a sync `def` handler runs in the framework's thread pool).   *)
(***************************************************************************)
EXTENDS Integers, Sequences, FiniteSets, TLC

VARIABLES routes, pc, req, frame, resp

vars == <<routes, pc, req, frame, resp>>

(***************************************************************************)
(* Bounds.                                                                 *)
(***************************************************************************)
NumWorkers == 2     \* workers handling requests at the same time
MaxLen == 4         \* longest skills value (list, string, mapping) sent
ConcLen == 1        \* longest skills value sent while workers interleave

Workers == 1..NumWorkers

\* the two workers whose requests are compared with each other
PairWorkers == {1, 2}

(***************************************************************************)
(* JSON values.  Every value carries its type tag t and its payload v:     *)
(* a list is a sequence of values, a string a sequence of characters, a    *)
(* mapping a function from its keys, null has no payload.                  *)
(***************************************************************************)
JList(s) == [t |-> "list", v |-> s]
JStr(s) == [t |-> "str", v |-> s]
JDict(f) == [t |-> "dict", v |-> f]
JInt(n) == [t |-> "int", v |-> n]
JBool(b) == [t |-> "bool", v |-> b]
JNull == [t |-> "null", v |-> <<>>]

\* the elements a skills list is filled with: a name, a number, a null
Elems == {JStr(<<"p", "y">>), JInt(7), JNull}

Repeat(n, e) == [i \in 1..n |-> e]

KeyName(i) == Repeat(i, "k")

ListsUpTo(n) == {JList(<<>>)} \cup {JList(Repeat(k, e)) : k \in 1..n, e \in Elems}
                  \cup (IF n >= 2 THEN {JList(<<JStr(<<"p", "y">>), JInt(7)>>)} ELSE {})

StrsUpTo(n) == {JStr(Repeat(k, "a")) : k \in 0..n}

DictsUpTo(n) == {JDict([key \in {KeyName(i) : i \in 1..k} |-> JNull]) : k \in 0..n}

Scalars == {JNull, JInt(3), JBool(TRUE)}

\* every value the skills key is sent with, up to length n
SkillsValues(n) == ListsUpTo(n) \cup StrsUpTo(n) \cup DictsUpTo(n) \cup Scalars

\* the other fields of a request body
ExtraFields == {<<>>, [k \in {"name"} |-> JStr(<<"x">>)],
                [k \in {"name", "years"} |-> IF k = "name" THEN JNull ELSE JInt(2)]}

WithSkills(extra, s) ==
  [k \in DOMAIN extra \cup {"skills"} |-> IF k = "skills" THEN s ELSE extra[k]]

\* the JSON objects sent as a body: with and without the skills key
Objects(n, extras) ==
  {JDict(extra) : extra \in extras}
    \cup {JDict(WithSkills(extra, s)) : extra \in extras, s \in SkillsValues(n)}

(***************************************************************************)
(* Requests.  A body is absent, malformed (no JSON value), or a JSON value.*)
(***************************************************************************)
NoBody == [t |-> "none", v |-> <<>>]
Malformed == [t |-> "malformed", v |-> <<>>]
JsonBody(j) == [t |-> "json", v |-> j]

RootPath == "/"
PredictPath == "/api/predict-salary"

Request(m, p, b) == [method |-> m, path |-> p, body |-> b]

RootReq == Request("GET", RootPath, NoBody)

\* bodies that are valid JSON but no key-value mapping
NonObjects == {JList(<<JStr(<<"p", "y">>)>>), JInt(3), JStr(<<"a">>), JNull}

BadBodies == {Malformed} \cup {JsonBody(j) : j \in NonObjects}

\* requests no route answers: a wrong method, an unknown path
Unrouted == {Request("GET", PredictPath, NoBody), Request("POST", RootPath, NoBody),
             Request("GET", "/health", NoBody)}

Predicts(bodies) == {Request("POST", PredictPath, b) : b \in bodies}

Requests ==
  {RootReq} \cup Unrouted \cup Predicts(BadBodies)
    \cup Predicts({JsonBody(o) : o \in Objects(MaxLen, ExtraFields)})

ConcRequests ==
  {RootReq} \cup Unrouted \cup Predicts(BadBodies)
    \cup Predicts({JsonBody(o) : o \in Objects(ConcLen, {<<>>})})

NoReq == Request("", "", NoBody)

(***************************************************************************)
(* Responses.                                                              *)
(***************************************************************************)
Response(s, b) == [status |-> s, body |-> b]

NoResp == Response(0, [detail |-> "none"])
NotFound == Response(404, [detail |-> "Not Found"])
MethodNotAllowed == Response(405, [detail |-> "Method Not Allowed"])
Unprocessable == Response(422, [detail |-> "Unprocessable Entity"])
InternalServerError == Response(500, [detail |-> "Internal Server Error"])

(***************************************************************************)
(* The methods of dict and the builtin len, as Python defines them.        *)
(***************************************************************************)
\* d.get(k) or default: a falsy value replaced by the default as well
getOrDefault(d, k, default) ==
  IF k \in DOMAIN d /\ d[k].t \notin {"null"} THEN d[k] ELSE default

\* d.get(k): the default left out, None when the key is missing
getNoDefault(d, k, default) == IF k \in DOMAIN d THEN d[k] ELSE JNull

\* d.get(k, default)
get(d, k, default) == IF k \in DOMAIN d THEN d[k] ELSE default

\* a guard that lets only lists through
HasLenListOnly(x) == x.t = "list"

\* whether len(x) is defined: lists, strings and mappings have a length
HasLen(x) == x.t \in {"list", "str", "dict"}

\* len(set(x)): the distinct elements counted
lenDistinct(x) ==
  IF x.t = "dict" THEN Cardinality(DOMAIN x.v) ELSE Cardinality({x.v[i] : i \in DOMAIN x.v})

\* len(x)
len(x) == IF x.t = "dict" THEN Cardinality(DOMAIN x.v) ELSE Len(x.v)

(***************************************************************************)
(* The handlers as functions of their request.                             *)
(***************************************************************************)
\* the message without its exclamation mark
read_rootPlain == [message |-> "ML Service is running"]

read_root == [message |-> "ML Service is running!"]

\* the result of predict_salary(data), or its failure on len(skills)
predict_salary(data) ==
  LET skills == get(data, "skills", JList(<<>>))
      base_salary == 50000
  IN IF HasLen(skills)
       THEN Response(200, [predicted_salary |-> base_salary + len(skills) * 1000])
       ELSE InternalServerError

\* the routes the decorators register on app when the module is imported
AppRoutes ==
  {[method |-> "GET", path |-> RootPath, endpoint |-> "read_root"],
   [method |-> "POST", path |-> PredictPath, endpoint |-> "predict_salary"]}

\* the endpoint a request is routed to, or the router's error
Route(rs, r) ==
  IF \E e \in rs : e.path = r.path /\ e.method = r.method
    THEN (CHOOSE e \in rs : e.path = r.path /\ e.method = r.method).endpoint
    ELSE IF \E e \in rs : e.path = r.path THEN "405" ELSE "404"

\* a parameter with no annotation: every JSON body is accepted
ValidBodyAny(b) == b.t = "json"

\* whether the body is accepted for the parameter data: dict
ValidBody(b) == b.t = "json" /\ b.v.t = "dict"

\* the response to a request that is handled with no other request around
HandleAlone(r) ==
  LET ep == Route(AppRoutes, r)
  IN CASE ep = "404" -> NotFound
       [] ep = "405" -> MethodNotAllowed
       [] ep = "read_root" -> Response(200, read_root)
       [] ep = "predict_salary" ->
            IF ValidBody(r.body) THEN predict_salary(r.body.v.v) ELSE Unprocessable

(***************************************************************************)
(* The state after the module is imported and the server started.          *)
(***************************************************************************)
NoFrame == <<>>

Bind(f, name, val) == [n \in DOMAIN f \cup {name} |-> IF n = name THEN val ELSE f[n]]

Init ==
  /\ routes = AppRoutes
  /\ pc = [w \in Workers |-> "idle"]
  /\ req = [w \in Workers |-> NoReq]
  /\ frame = [w \in Workers |-> NoFrame]
  /\ resp = [w \in Workers |-> NoResp]

(***************************************************************************)
(* The framework: accepting and routing a request, validating the body,    *)
(* turning an exception of the handler into a response, sending.           *)
(***************************************************************************)
Dispatch(w, r) ==
  /\ pc[w] = "idle"
  /\ req' = [req EXCEPT ![w] = r]
  /\ LET ep == Route(routes, r)
     IN CASE ep = "404" ->
               /\ pc' = [pc EXCEPT ![w] = "done"]
               /\ resp' = [resp EXCEPT ![w] = NotFound]
          [] ep = "405" ->
               /\ pc' = [pc EXCEPT ![w] = "done"]
               /\ resp' = [resp EXCEPT ![w] = MethodNotAllowed]
          [] ep = "read_root" ->
               /\ pc' = [pc EXCEPT ![w] = "l9"]
               /\ resp' = resp
          [] ep = "predict_salary" ->
               /\ pc' = [pc EXCEPT ![w] = "validate"]
               /\ resp' = resp
  /\ UNCHANGED <<routes, frame>>

\* the body is parsed and checked against data: dict; the call binds data
Validate(w) ==
  /\ pc[w] = "validate"
  /\ IF ValidBody(req[w].body)
       THEN /\ frame' = [frame EXCEPT ![w] = Bind(NoFrame, "data", req[w].body.v.v)]
            /\ pc' = [pc EXCEPT ![w] = "l14"]
            /\ resp' = resp
       ELSE /\ resp' = [resp EXCEPT ![w] = Unprocessable]
            /\ pc' = [pc EXCEPT ![w] = "done"]
            /\ frame' = frame
  /\ UNCHANGED <<routes, req>>

\* an exception leaves the handler: the frame is dropped, the answer is 500
ServerError(w) ==
  /\ pc[w] = "raised"
  /\ resp' = [resp EXCEPT ![w] = InternalServerError]
  /\ frame' = [frame EXCEPT ![w] = NoFrame]
  /\ pc' = [pc EXCEPT ![w] = "done"]
  /\ UNCHANGED <<routes, req>>

\* the response goes out to the client and the worker is free again
Send(w) ==
  /\ pc[w] = "done"
  /\ pc' = [pc EXCEPT ![w] = "idle"]
  /\ req' = [req EXCEPT ![w] = NoReq]
  /\ resp' = [resp EXCEPT ![w] = NoResp]
  /\ UNCHANGED <<routes, frame>>

(***************************************************************************)
(* read_root, line 9.                                                      *)
(***************************************************************************)
L9(w) ==
  /\ pc[w] = "l9"
  /\ resp' = [resp EXCEPT ![w] = Response(200, read_root)]
  /\ pc' = [pc EXCEPT ![w] = "done"]
  /\ UNCHANGED <<routes, req, frame>>

(***************************************************************************)
(* predict_salary, lines 14 to 17.                                         *)
(***************************************************************************)
\* skills = data["skills"]: a KeyError when the key is missing
L14Subscript(w) ==
  /\ pc[w] = "l14"
  /\ IF "skills" \in DOMAIN frame[w]["data"]
       THEN /\ frame' = [frame EXCEPT ![w] = Bind(@, "skills", frame[w]["data"]["skills"])]
            /\ pc' = [pc EXCEPT ![w] = "l15"]
       ELSE /\ frame' = frame
            /\ pc' = [pc EXCEPT ![w] = "raised"]
  /\ UNCHANGED <<routes, req, resp>>

\* skills a module-level name: the assignment is seen by every running call
L14Global(w) ==
  /\ pc[w] = "l14"
  /\ LET s == get(frame[w]["data"], "skills", JList(<<>>))
     IN frame' = [v \in Workers |->
                   IF v = w \/ pc[v] \in {"l15", "l16"}
                     THEN Bind(frame[v], "skills", s) ELSE frame[v]]
  /\ pc' = [pc EXCEPT ![w] = "l15"]
  /\ UNCHANGED <<routes, req, resp>>

\* skills = data.get("skills", [])
L14(w) ==
  /\ pc[w] = "l14"
  /\ frame' = [frame EXCEPT ![w] =
                 Bind(@, "skills", get(frame[w]["data"], "skills", JList(<<>>)))]
  /\ pc' = [pc EXCEPT ![w] = "l15"]
  /\ UNCHANGED <<routes, req, resp>>

\* base_salary = 50000
L15(w) ==
  /\ pc[w] = "l15"
  /\ frame' = [frame EXCEPT ![w] = Bind(@, "base_salary", 50000)]
  /\ pc' = [pc EXCEPT ![w] = "l16"]
  /\ UNCHANGED <<routes, req, resp>>

\* bonus = len(skills) * 100
L16Hundred(w) ==
  /\ pc[w] = "l16"
  /\ IF HasLen(frame[w]["skills"])
       THEN /\ frame' = [frame EXCEPT ![w] = Bind(@, "bonus", len(frame[w]["skills"]) * 100)]
            /\ pc' = [pc EXCEPT ![w] = "l17"]
       ELSE /\ frame' = frame
            /\ pc' = [pc EXCEPT ![w] = "raised"]
  /\ UNCHANGED <<routes, req, resp>>

\* bonus = len(skills) * 1000, a TypeError when skills has no length
L16(w) ==
  /\ pc[w] = "l16"
  /\ IF HasLen(frame[w]["skills"])
       THEN /\ frame' = [frame EXCEPT ![w] = Bind(@, "bonus", len(frame[w]["skills"]) * 1000)]
            /\ pc' = [pc EXCEPT ![w] = "l17"]
       ELSE /\ frame' = frame
            /\ pc' = [pc EXCEPT ![w] = "raised"]
  /\ UNCHANGED <<routes, req, resp>>

\* the result grows with a module-level count of the answers not yet sent
L17Counting(w) ==
  /\ pc[w] = "l17"
  /\ resp' = [resp EXCEPT ![w] =
                Response(200, [predicted_salary |->
                  frame[w]["base_salary"] + frame[w]["bonus"]
                    + Cardinality({v \in Workers : pc[v] = "done"})])]
  /\ frame' = [frame EXCEPT ![w] = NoFrame]
  /\ pc' = [pc EXCEPT ![w] = "done"]
  /\ UNCHANGED <<routes, req>>

\* return {"predicted_salary": base_salary + bonus}
L17(w) ==
  /\ pc[w] = "l17"
  /\ resp' = [resp EXCEPT ![w] =
                Response(200, [predicted_salary |-> frame[w]["base_salary"] + frame[w]["bonus"]])]
  /\ frame' = [frame EXCEPT ![w] = NoFrame]
  /\ pc' = [pc EXCEPT ![w] = "done"]
  /\ UNCHANGED <<routes, req>>

\* the next step of the request worker w is handling
Step(w) ==
  \/ Validate(w)
  \/ L9(w)
  \/ L14(w)
  \/ L15(w)
  \/ L16(w)
  \/ L17(w)
  \/ ServerError(w)
  \/ Send(w)

(***************************************************************************)
(* The server with all its workers, on short requests.                     *)
(***************************************************************************)
Next ==
  \E w \in Workers :
    \/ \E r \in ConcRequests : Dispatch(w, r)
    \/ Step(w)

Spec == Init /\ [][Next]_vars

(***************************************************************************)
(* Two workers, on every request: any two requests meet in some state.     *)
(***************************************************************************)
NextPair ==
  \E w \in PairWorkers :
    \/ \E r \in Requests : Dispatch(w, r)
    \/ Step(w)

SpecPair == Init /\ [][NextPair]_vars

(***************************************************************************)
(* Properties.                                                             *)
(***************************************************************************)
IsPredict(r) == r.method = "POST" /\ r.path = PredictPath

\* the request is a POST to /api/predict-salary with a JSON object as body
IsObject(r) == IsPredict(r) /\ r.body.t = "json" /\ r.body.v.t = "dict"

DataOf(r) == r.body.v.v

HasSkills(r) == IsObject(r) /\ "skills" \in DOMAIN DataOf(r)

SkillsOf(r) == DataOf(r)["skills"]

Salary(n) == Response(200, [predicted_salary |-> n])

InHandler(w) == pc[w] \in {"l14", "l15", "l16", "l17", "raised"}

Answered(w) == pc[w] = "done"

\* C1: a body whose skills is a list of n elements is answered with exactly
\* {"predicted_salary": 50000 + 1000 * n}, an integer, and the handler does
\* not fail on it.
C1_ListSalary ==
  \A w \in Workers :
    (HasSkills(req[w]) /\ SkillsOf(req[w]).t = "list") =>
      /\ pc[w] # "raised"
      /\ Answered(w) =>
           /\ resp[w] = Salary(50000 + 1000 * Len(SkillsOf(req[w]).v))
           /\ resp[w].body.predicted_salary \in Int

C1_Witness ==
  \E w \in Workers :
    /\ Answered(w) /\ HasSkills(req[w]) /\ SkillsOf(req[w]).t = "list"
    /\ Len(SkillsOf(req[w]).v) = 4
    /\ resp[w] = Salary(54000)

\* C2: a JSON object with no skills key, whatever its other keys, is answered
\* with {"predicted_salary": 50000}, the answer a body with skills = [] gets.
C2_MissingSkills ==
  \A w \in Workers :
    (Answered(w) /\ IsObject(req[w]) /\ ~HasSkills(req[w])) =>
      /\ resp[w] = Salary(50000)
      /\ \A v \in Workers :
           (Answered(v) /\ HasSkills(req[v]) /\ SkillsOf(req[v]) = JList(<<>>)) =>
             resp[v] = resp[w]

C2_Witness ==
  \E w, v \in Workers :
    /\ Answered(w) /\ IsObject(req[w]) /\ DOMAIN DataOf(req[w]) = {"name", "years"}
    /\ resp[w] = Salary(50000)
    /\ Answered(v) /\ HasSkills(req[v]) /\ SkillsOf(req[v]) = JList(<<>>)
    /\ resp[v] = Salary(50000)

\* C3: a GET of the root path is answered with exactly
\* {"message": "ML Service is running!"} and status 200, whatever the other
\* workers do and whatever was handled before, and the step that answers it
\* changes nothing but the answer of its own request.
C3_RootFixed ==
  [][\A w \in Workers :
       /\ (req'[w] = RootReq /\ pc'[w] = "done") =>
            resp'[w] = Response(200, [message |-> "ML Service is running!"])
       /\ (req[w] = RootReq /\ pc[w] # "done" /\ pc'[w] = "done") =>
            /\ routes' = routes /\ req' = req /\ frame' = frame
            /\ \A v \in Workers \ {w} : pc'[v] = pc[v] /\ resp'[v] = resp[v]]_vars

C3_Witness ==
  \E w, v \in Workers :
    /\ req[w] = RootReq /\ Answered(w)
    /\ resp[w] = Response(200, [message |-> "ML Service is running!"])
    /\ pc[v] = "l16" /\ routes = AppRoutes

\* C4: the same request gets the same response each time it is handled,
\* whatever was handled before it and between the repetitions.
C4_Idempotent ==
  \A w, v \in Workers :
    (Answered(w) /\ Answered(v) /\ req[w] = req[v]) => resp[w] = resp[v]

C4_Witness ==
  \E w, v \in Workers :
    /\ w # v /\ Answered(w) /\ Answered(v) /\ req[w] = req[v]
    /\ HasSkills(req[w]) /\ SkillsOf(req[w]) = JList(<<JInt(7)>>)
    /\ resp[w] = Salary(51000) /\ resp[v] = Salary(51000)

\* C5: under every interleaving of the workers, each request gets the
\* response it gets when handled alone, and a request being handled can
\* always take its next step: no worker waits for another.
C5_Interleaving ==
  \A w \in Workers :
    /\ Answered(w) => resp[w] = HandleAlone(req[w])
    /\ pc[w] # "idle" => ENABLED Step(w)

C5_Witness ==
  \E w, v \in Workers :
    /\ Answered(w) /\ HasSkills(req[w]) /\ resp[w] = Salary(51000)
    /\ pc[v] = "l16" /\ HasSkills(req[v]) /\ SkillsOf(req[v]) = JList(<<>>)

\* C6: two bodies whose skills lists have the same length get the same
\* predicted_salary, whatever the elements and the other fields are.
C6_LengthOnly ==
  \A w, v \in Workers :
    ( /\ Answered(w) /\ Answered(v)
      /\ HasSkills(req[w]) /\ HasSkills(req[v])
      /\ SkillsOf(req[w]).t = "list" /\ SkillsOf(req[v]).t = "list"
      /\ Len(SkillsOf(req[w]).v) = Len(SkillsOf(req[v]).v) ) =>
        /\ "predicted_salary" \in DOMAIN resp[w].body
        /\ resp[v] = resp[w]

C6_Witness ==
  \E w, v \in Workers :
    /\ Answered(w) /\ Answered(v) /\ IsObject(req[w])
    /\ DataOf(req[w]) = WithSkills(<<>>, JList(<<JStr(<<"p", "y">>), JInt(7)>>))
    /\ HasSkills(req[v]) /\ SkillsOf(req[v]) = JList(<<JNull, JNull>>)
    /\ "name" \in DOMAIN DataOf(req[v])
    /\ resp[w] = Salary(52000) /\ resp[v] = Salary(52000)

\* C7 as claimed: every JSON object that reaches the handler is answered
\* with {"predicted_salary": <integer>} and status 200, never with an error.
C7_Original ==
  \A w \in Workers :
    IsObject(req[w]) =>
      /\ pc[w] # "raised"
      /\ Answered(w) =>
           /\ resp[w].status = 200
           /\ "predicted_salary" \in DOMAIN resp[w].body

\* C7 as amended: every JSON object whose skills key is missing or holds a
\* value that has a length (a list, a string, a mapping) is answered with
\* {"predicted_salary": <integer>} and status 200, never with an error.
C7_NoErrorWithLength ==
  \A w \in Workers :
    ( /\ IsObject(req[w])
      /\ HasSkills(req[w]) => SkillsOf(req[w]).t \in {"list", "str", "dict"} ) =>
        /\ pc[w] # "raised"
        /\ Answered(w) =>
             /\ resp[w].status = 200
             /\ DOMAIN resp[w].body = {"predicted_salary"}
             /\ resp[w].body.predicted_salary \in Int

C7_Witness ==
  \E w, v \in Workers :
    /\ Answered(w) /\ IsObject(req[w]) /\ DOMAIN DataOf(req[w]) = {"name"}
    /\ resp[w].status = 200
    /\ Answered(v) /\ HasSkills(req[v]) /\ SkillsOf(req[v]).t = "dict"
    /\ resp[v].status = 200

\* C8: a POST to /api/predict-salary whose body is malformed JSON or no
\* key-value mapping never enters the handler body and is answered with the
\* framework's error response, never with a predicted_salary.
C8_Rejected ==
  \A w \in Workers :
    (IsPredict(req[w]) /\ ~IsObject(req[w])) =>
      /\ ~InHandler(w)
      /\ frame[w] = NoFrame
      /\ Answered(w) =>
           /\ resp[w].status = 422
           /\ "predicted_salary" \notin DOMAIN resp[w].body

C8_Witness ==
  \E w, v \in Workers :
    /\ Answered(w) /\ req[w] = Request("POST", PredictPath, Malformed)
    /\ resp[w] = Unprocessable
    /\ Answered(v) /\ req[v] = Request("POST", PredictPath, JsonBody(JInt(3)))
    /\ resp[v] = Unprocessable

\* C9: when the skills key is present with a value that has no length
\* (null, a number, a boolean) the default is not used: the handler fails on
\* line 16, taking the length, and the request ends in an error with no
\* predicted_salary.
C9_NoLengthFails ==
  \A w \in Workers :
    (HasSkills(req[w]) /\ SkillsOf(req[w]).t \in {"null", "int", "bool"}) =>
      /\ pc[w] # "l17"
      /\ pc[w] \in {"l15", "l16", "raised"} => frame[w]["skills"] = SkillsOf(req[w])
      /\ pc[w] = "raised" => DOMAIN frame[w] = {"data", "skills", "base_salary"}
      /\ Answered(w) =>
           /\ resp[w].status = 500
           /\ "predicted_salary" \notin DOMAIN resp[w].body

C9_Witness ==
  \E w, v \in Workers :
    /\ Answered(w) /\ HasSkills(req[w]) /\ SkillsOf(req[w]) = JNull
    /\ resp[w] = InternalServerError
    /\ pc[v] = "raised" /\ HasSkills(req[v]) /\ SkillsOf(req[v]) = JBool(TRUE)

\* C10: when skills is a string of k characters or a mapping of k keys the
\* handler answers {"predicted_salary": 50000 + 1000 * k} with status 200,
\* as it does for a list of k elements.
C10_StringOrMapping ==
  \A w \in Workers :
    (Answered(w) /\ HasSkills(req[w])) =>
      /\ SkillsOf(req[w]).t = "str" =>
           resp[w] = Salary(50000 + 1000 * Len(SkillsOf(req[w]).v))
      /\ SkillsOf(req[w]).t = "dict" =>
           resp[w] = Salary(50000 + 1000 * Cardinality(DOMAIN SkillsOf(req[w]).v))

C10_Witness ==
  \E w, v \in Workers :
    /\ Answered(w) /\ HasSkills(req[w]) /\ SkillsOf(req[w]) = JStr(<<"a", "a", "a">>)
    /\ resp[w] = Salary(53000)
    /\ Answered(v) /\ HasSkills(req[v]) /\ SkillsOf(req[v]).t = "dict"
    /\ Cardinality(DOMAIN SkillsOf(req[v]).v) = 2
    /\ resp[v] = Salary(52000)

====
